---- MODULE Spec2Model ----
(***************************************************************************)
(* State-machine model of the CanvasGrid component                         *)
(* (src/src/components/CanvasGrid.tsx) as mounted by App (src/src/App.tsx).*)
(*                                                                         *)
(* JavaScript numbers are modelled as exact rationals <<n, d>> with d > 0  *)
(* and gcd(n, d) = 1, so that equal numbers are equal values.  One action  *)
(* is one event handler run to completion, followed by the re-render that  *)
(* React performs before the next event is delivered; the values a handler *)
(* closes over (offset, scale) are therefore the state at the start of     *)
(* the action, and the values its updater functions receive are the        *)
(* current state.  Every updater function runs once per event.             *)
(***************************************************************************)
EXTENDS Integers, Sequences, FiniteSets, TLC

VARIABLES
    props,        \* [rows, cols, cellSize] passed by the host
    mounted,      \* the effects have run: containerRef / canvasRef are set
    scale,        \* useState(1)
    offset,       \* useState({x: 0, y: 0})
    hoveredCell,  \* useState(null)
    selectedCell, \* useState(null)
    canvasSize,   \* useState({width: 1200, height: 800})
    panState,     \* useRef({dragging, pointerId, start, origin})
    canvas,       \* the canvas element: buffer width/height, style width/height
    captured,     \* pointer ids for which the canvas holds pointer capture
    calls,        \* the host callbacks invoked by the last handler, in order
    last,         \* the last event delivered, with its inputs
    pre,          \* the view state (offset, scale) the last event found
    lastPan,      \* the gesture origin and displacement of the last pan update
    prevPan,      \* lastPan of the gesture that the last pointer-down replaced
    lastZoom,     \* the last wheel event that changed the view, and the view before it
    painted,      \* what the last run of the render effect drew on the canvas
    downView,     \* the view (offset, scale) the last pointer-down found
    nEvents       \* number of events delivered so far

vars == <<props, mounted, scale, offset, hoveredCell, selectedCell, canvasSize,
          panState, canvas, captured, calls, last, pre, lastPan, prevPan, lastZoom,
          painted, downView, nEvents>>

----------------------------------------------------------------------------
(* Bounds of the exploration *)

MaxEvents == 4

----------------------------------------------------------------------------
(* Exact rational arithmetic for JavaScript numbers *)

Abs(n) == IF n < 0 THEN -n ELSE n

RECURSIVE GCD(_, _)
GCD(a, b) == IF b = 0 THEN a ELSE GCD(b, a % b)

Norm(n, d) ==
    LET s == IF d < 0 THEN -1 ELSE 1
        g == GCD(Abs(n), Abs(d))
    IN  <<(s * n) \div g, (s * d) \div g>>

I(n) == <<n, 1>>
RAdd(a, b) == Norm(a[1] * b[2] + b[1] * a[2], a[2] * b[2])
RSub(a, b) == Norm(a[1] * b[2] - b[1] * a[2], a[2] * b[2])
RMul(a, b) == Norm(a[1] * b[1], a[2] * b[2])
RDiv(a, b) == Norm(a[1] * b[2], a[2] * b[1])
RLt(a, b) == a[1] * b[2] < b[1] * a[2]
RLe(a, b) == a[1] * b[2] <= b[1] * a[2]
RMax(a, b) == IF RLt(a, b) THEN b ELSE a
RMin(a, b) == IF RLt(b, a) THEN b ELSE a

RFloor(a) == a[1] \div a[2]

----------------------------------------------------------------------------
(* Program constants and the inputs the environment supplies *)

MIN_SCALE == <<1, 4>>
MAX_SCALE == <<4, 1>>
WheelFactor == <<1, 1000>>
MinSurface == 200
DefaultWidth == 1200
DefaultHeight == 800

\* The props App passes, and a second host with a grid small enough that
\* points beyond its last row and column occur.
PropsSet ==
    { [rows |-> 200, cols |-> 200, cellSize |-> 32],
      [rows |-> 4, cols |-> 3, cellSize |-> 32] }

\* canvas.getBoundingClientRect(): where the canvas lies in the client area.
Rect == [left |-> 16, top |-> 80]

PointerIds == {1, 2}

\* Points of the surface (client point minus Rect) that events are delivered at.
SurfacePoints == { <<64, 96>>, <<100, 100>>, <<-6, 20>> }

ClientPoints == { [x |-> p[1] + Rect.left, y |-> p[2] + Rect.top] : p \in SurfacePoints }

\* evt.deltaY of wheel events.
Deltas == { -2000, 0, 2000 }

\* The container's content box and window.devicePixelRatio (0: absent), as
\* the ResizeObserver reports them and as the mount effect finds them.
Environments ==
    { [width |-> 0, height |-> 0, dpr |-> <<0, 1>>],
      [width |-> 600, height |-> 400, dpr |-> <<2, 1>>],
      [width |-> 150, height |-> 601, dpr |-> <<3, 2>>] }

MountEnvironments ==
    { [width |-> 0, height |-> 0, dpr |-> <<0, 1>>],
      [width |-> 150, height |-> 601, dpr |-> <<3, 2>>] }

Null == [isNull |-> TRUE]

Pt(x, y) == [x |-> x, y |-> y]

----------------------------------------------------------------------------
(* Pure functions of the component *)

\* clamp without its upper bound.
clamp_lowerOnly(value, min, max) == RMax(value, min)

clamp(value, min, max) == RMin(RMax(value, min), max)

\* JavaScript's a || b on numbers: b when a is 0.
OrElse(a, b) == IF a = 0 THEN b ELSE a

\* Conversion of a number to the unsigned long of canvas.width: the fraction
\* is dropped (the sizes of the model are non-negative and far below 2^32).
ToUnsignedLong(r) == RFloor(r)

\* A hit test that does not divide by the scale.
getCellFromClientPoint_noScale(clientX, clientY, off, sc) ==
    LET x == RSub(RSub(I(clientX), I(Rect.left)), off.x)
        y == RSub(RSub(I(clientY), I(Rect.top)), off.y)
        col == RFloor(RDiv(x, I(props.cellSize)))
        row == RFloor(RDiv(y, I(props.cellSize)))
    IN  IF row < 0 \/ col < 0 \/ row >= props.rows \/ col >= props.cols
        THEN Null
        ELSE [row |-> row, col |-> col]

\* A hit test that does not compare the column with cols.
getCellFromClientPoint_noColLimit(clientX, clientY, off, sc) ==
    LET x == RDiv(RSub(RSub(I(clientX), I(Rect.left)), off.x), sc)
        y == RDiv(RSub(RSub(I(clientY), I(Rect.top)), off.y), sc)
        col == RFloor(RDiv(x, I(props.cellSize)))
        row == RFloor(RDiv(y, I(props.cellSize)))
    IN  IF row < 0 \/ col < 0 \/ row >= props.rows
        THEN Null
        ELSE [row |-> row, col |-> col]

\* A hit test without the lower range test.
getCellFromClientPoint_noNegative(clientX, clientY, off, sc) ==
    LET x == RDiv(RSub(RSub(I(clientX), I(Rect.left)), off.x), sc)
        y == RDiv(RSub(RSub(I(clientY), I(Rect.top)), off.y), sc)
        col == RFloor(RDiv(x, I(props.cellSize)))
        row == RFloor(RDiv(y, I(props.cellSize)))
    IN  IF row >= props.rows \/ col >= props.cols
        THEN Null
        ELSE [row |-> row, col |-> col]

getCellFromClientPoint(clientX, clientY, off, sc) ==
    LET x == RDiv(RSub(RSub(I(clientX), I(Rect.left)), off.x), sc)
        y == RDiv(RSub(RSub(I(clientY), I(Rect.top)), off.y), sc)
        col == RFloor(RDiv(x, I(props.cellSize)))
        row == RFloor(RDiv(y, I(props.cellSize)))
    IN  IF row < 0 \/ col < 0 \/ row >= props.rows \/ col >= props.cols
        THEN Null
        ELSE [row |-> row, col |-> col]

\* A sizing effect that ignores the device pixel ratio.
SizeCanvas_noDpr(size, devicePixelRatio) ==
    [width |-> size.width, height |-> size.height,
     styleWidth |-> size.width, styleHeight |-> size.height]

\* The sizing effect: buffer in device pixels, displayed size in logical pixels.
SizeCanvas(size, devicePixelRatio) ==
    LET dpr == IF devicePixelRatio = <<0, 1>> THEN <<1, 1>> ELSE devicePixelRatio
    IN  [width |-> ToUnsignedLong(RMul(I(size.width), dpr)),
         height |-> ToUnsignedLong(RMul(I(size.height), dpr)),
         styleWidth |-> size.width,
         styleHeight |-> size.height]

HoverCall(cell) ==
    [fn |-> "onHover",
     row |-> IF cell # Null THEN cell.row ELSE -1,
     col |-> IF cell # Null THEN cell.col ELSE -1]

SelectCall(cell) == [fn |-> "onSelect", row |-> cell.row, col |-> cell.col]

Snapshot ==
    [scale |-> scale, offset |-> offset, hoveredCell |-> hoveredCell,
     selectedCell |-> selectedCell, canvasSize |-> canvasSize,
     panState |-> panState, captured |-> captured, canvas |-> canvas,
     lastZoom |-> lastZoom]

\* No pan update / no zoom to return from: the view has changed otherwise since.
NoPan == [valid |-> FALSE]
NoZoom == [valid |-> FALSE]

\* A hover fill whose x is taken from the row and whose y from the column.
HoverRect_transposed(p, hovered) ==
    IF hovered # Null
    THEN [x |-> I(hovered.row * p.cellSize),
          y |-> I(hovered.col * p.cellSize),
          w |-> I(p.cellSize),
          h |-> I(p.cellSize)]
    ELSE Null

\* The rectangle the render effect fills for the hovered cell, in grid
\* coordinates (the arguments of fillRect).
HoverRect(p, hovered) ==
    IF hovered # Null
    THEN [x |-> I(hovered.col * p.cellSize),
          y |-> I(hovered.row * p.cellSize),
          w |-> I(p.cellSize),
          h |-> I(p.cellSize)]
    ELSE Null

\* The rectangle the render effect strokes for the selected cell, in grid
\* coordinates (the arguments of strokeRect), and the width of the stroke.
SelectionRect(p, sc, selected) ==
    LET px == RDiv(I(1), sc)
    IN  IF selected # Null
        THEN [x |-> RAdd(I(selected.col * p.cellSize), RMul(px, <<1, 2>>)),
              y |-> RAdd(I(selected.row * p.cellSize), RMul(px, <<1, 2>>)),
              w |-> RSub(I(p.cellSize), px),
              h |-> RSub(I(p.cellSize), px),
              lineWidth |-> RMul(I(2), px)]
        ELSE Null

\* One run of the render effect on the values of its dependency array: the
\* transform it sets (translate by offset, scale by scale), the background,
\* the gridlines its two loops stroke, the hover fill and the selection
\* outline.  hLines holds the r of the first loop (r = 0; r <= rows), which
\* strokes from (0, r * cellSize) to (gridWidth, r * cellSize); vLines holds
\* the c of the second loop, which strokes from (c * cellSize, 0) to
\* (c * cellSize, gridHeight).
Paint(p, sc, off, hovered, selected, size) ==
    [offset |-> off,
     scale |-> sc,
     size |-> size,
     gridWidth |-> p.cols * p.cellSize,
     gridHeight |-> p.rows * p.cellSize,
     lineWidth |-> RDiv(I(1), sc),
     cellSize |-> p.cellSize,
     hLines |-> 0..p.rows,
     vLines |-> 0..p.cols,
     hover |-> HoverRect(p, hovered),
     selection |-> SelectionRect(p, sc, selected)]

\* A dependency array without hoveredCell.
RenderDeps_noHover(sc, off, hovered, selected, size) ==
    <<sc, off, selected, size>>

\* The dependency array of the render effect, without the props (they do not
\* change): the effect runs after a render in which one of these changed.
RenderDeps(sc, off, hovered, selected, size) ==
    <<sc, off, hovered, selected, size>>

\* The render effect after a handler.
RenderEffect ==
    painted' = IF RenderDeps(scale', offset', hoveredCell', selectedCell',
                             canvasSize')
                  # RenderDeps(scale, offset, hoveredCell, selectedCell,
                               canvasSize)
               THEN Paint(props, scale', offset', hoveredCell', selectedCell',
                          canvasSize')
               ELSE painted

----------------------------------------------------------------------------
(* Initial state: the useState / useRef initialisers, before the effects *)

Init ==
    /\ props \in PropsSet
    /\ mounted = FALSE
    /\ scale = I(1)
    /\ offset = Pt(I(0), I(0))
    /\ hoveredCell = Null
    /\ selectedCell = Null
    /\ canvasSize = [width |-> DefaultWidth, height |-> DefaultHeight]
    /\ panState = [dragging |-> FALSE, pointerId |-> -1,
                   start |-> Pt(0, 0), origin |-> Pt(I(0), I(0))]
    /\ canvas = [width |-> 300, height |-> 150, styleWidth |-> 0, styleHeight |-> 0]
    /\ captured = {}
    /\ calls = <<>>
    /\ last = [type |-> "none"]
    /\ pre = [none |-> TRUE]
    /\ lastPan = NoPan
    /\ prevPan = NoPan
    /\ lastZoom = NoZoom
    /\ painted = [blank |-> TRUE]
    /\ downView = [none |-> TRUE]
    /\ nEvents = 0

----------------------------------------------------------------------------
(* Events.  Every handler runs to completion; the re-render follows it. *)

\* The browser dispatches an event to the canvas when the point lies on it.
\* A captured pointer's events are dispatched to it wherever the pointer is.
OnCanvas(c) ==
    /\ 0 <= c.x - Rect.left /\ c.x - Rect.left < canvasSize.width
    /\ 0 <= c.y - Rect.top /\ c.y - Rect.top < canvasSize.height

Deliver(evt) ==
    /\ nEvents < MaxEvents
    /\ nEvents' = nEvents + 1
    /\ last' = evt
    /\ pre' = Snapshot
    /\ UNCHANGED props

\* First commit: the mount effect reads the container's client size, then
\* the sizing effect runs on the resulting canvasSize.
Mount(env) ==
    /\ ~mounted
    /\ mounted' = TRUE
    /\ canvasSize' = [width |-> OrElse(env.width, DefaultWidth),
                      height |-> OrElse(env.height, DefaultHeight)]
    /\ canvas' = SizeCanvas(canvasSize', env.dpr)
    /\ calls' = <<>>
    /\ last' = [type |-> "mount", env |-> env]
    /\ pre' = Snapshot
    /\ UNCHANGED <<props, scale, offset, hoveredCell, selectedCell, panState,
                   captured, lastPan, prevPan, lastZoom, downView, nEvents>>
    /\ painted' = Paint(props, scale', offset', hoveredCell', selectedCell',
                        canvasSize')

\* The size the ResizeObserver callback sets for a content box.
ObservedSize(width, height) ==
    [width |-> IF width > MinSurface THEN width ELSE MinSurface,
     height |-> IF height > MinSurface THEN height ELSE MinSurface]

\* The ResizeObserver callback, then the sizing effect.
Resize(env) ==
    /\ mounted
    /\ Deliver([type |-> "resize", env |-> env])
    /\ canvasSize' = ObservedSize(env.width, env.height)
    /\ canvas' = SizeCanvas(canvasSize', env.dpr)
    /\ calls' = <<>>
    /\ UNCHANGED <<mounted, scale, offset, hoveredCell, selectedCell, panState,
                   captured, lastPan, prevPan, lastZoom, downView>>
    /\ RenderEffect

handlePointerDown(id, c) ==
    /\ mounted
    /\ OnCanvas(c)
    /\ Deliver([type |-> "down", id |-> id, x |-> c.x, y |-> c.y])
    /\ panState' = [dragging |-> TRUE, pointerId |-> id,
                    start |-> Pt(c.x, c.y), origin |-> offset]
    /\ captured' = captured \cup {id}
    /\ calls' = <<>>
    /\ prevPan' = lastPan
    /\ lastPan' = NoPan
    /\ downView' = [offset |-> offset, scale |-> scale]
    /\ UNCHANGED <<mounted, scale, offset, hoveredCell, selectedCell, canvasSize,
                   canvas, lastZoom>>
    /\ RenderEffect

\* A pan update that converts the displacement to grid units.
PanOffset_scaled(id, c) ==
    IF panState.dragging /\ panState.pointerId = id
    THEN Pt(RAdd(panState.origin.x, RDiv(I(c.x - panState.start.x), scale)),
            RAdd(panState.origin.y, RDiv(I(c.y - panState.start.y), scale)))
    ELSE offset

\* A pan update that does not compare the pointer id with the tracked one.
PanOffset_anyPointer(id, c) ==
    IF panState.dragging
    THEN Pt(RAdd(panState.origin.x, I(c.x - panState.start.x)),
            RAdd(panState.origin.y, I(c.y - panState.start.y)))
    ELSE offset

\* A pan update that does not read the dragging flag.
PanOffset_notDragging(id, c) ==
    IF panState.pointerId = id
    THEN Pt(RAdd(panState.origin.x, I(c.x - panState.start.x)),
            RAdd(panState.origin.y, I(c.y - panState.start.y)))
    ELSE offset

\* The new offset of a pointer-move: the pan update when the gesture matches.
PanOffset(id, c) ==
    IF panState.dragging /\ panState.pointerId = id
    THEN Pt(RAdd(panState.origin.x, I(c.x - panState.start.x)),
            RAdd(panState.origin.y, I(c.y - panState.start.y)))
    ELSE offset

\* The cell the hover hit test of a pointer-move resolves: the handler's
\* getCellFromClientPoint closes over the offset and scale of the last render.
HoverCell(id, c) == getCellFromClientPoint(c.x, c.y, offset, scale)

handlePointerMove(id, c) ==
    /\ mounted
    /\ OnCanvas(c) \/ id \in captured
    /\ Deliver([type |-> "move", id |-> id, x |-> c.x, y |-> c.y])
    /\ offset' = PanOffset(id, c)
    /\ hoveredCell' = HoverCell(id, c)
    /\ calls' = <<HoverCall(hoveredCell')>>
    /\ lastPan' = IF panState.dragging /\ panState.pointerId = id
                  THEN [valid |-> TRUE, origin |-> panState.origin,
                        dx |-> c.x - panState.start.x, dy |-> c.y - panState.start.y]
                  ELSE lastPan
    /\ lastZoom' = IF offset' = offset THEN lastZoom ELSE NoZoom
    /\ UNCHANGED <<mounted, scale, selectedCell, canvasSize, canvas, panState,
                   captured, prevPan, downView>>
    /\ RenderEffect

\* panState after a pointer-up of pointer id.
\* A pointer-up whose id comparison is inverted.
UpPanState_otherId(id) ==
    IF panState.pointerId # id
    THEN [panState EXCEPT !.dragging = FALSE]
    ELSE panState

\* The gesture after a pointer-up: only the tracked pointer ends the drag.
UpPanState(id) ==
    IF panState.pointerId = id
    THEN [panState EXCEPT !.dragging = FALSE]
    ELSE panState

handlePointerUp(id) ==
    /\ mounted
    /\ Deliver([type |-> "up", id |-> id])
    /\ panState' = UpPanState(id)
    /\ captured' = captured \ {id}
    /\ calls' = <<>>
    /\ UNCHANGED <<mounted, scale, offset, hoveredCell, selectedCell, canvasSize,
                   canvas, lastPan, prevPan, lastZoom, downView>>
    /\ RenderEffect

\* panState after a pointer-leave: the handler does not touch it.
LeavePanState == panState

\* A pointer that is captured by the canvas does not leave it.
handlePointerLeave(id) ==
    /\ mounted
    /\ id \notin captured
    /\ Deliver([type |-> "leave", id |-> id])
    /\ hoveredCell' = Null
    /\ calls' = <<HoverCall(Null)>>
    /\ panState' = LeavePanState
    /\ UNCHANGED <<mounted, scale, offset, selectedCell, canvasSize, canvas,
                   captured, lastPan, prevPan, lastZoom, downView>>
    /\ RenderEffect

\* A click that stores whatever the hit test returned.
ClickSelection_always(cell) == cell

\* selectedCell and the host calls after a click that resolved to cell.
ClickSelection(cell) == IF cell # Null THEN cell ELSE selectedCell
ClickCalls(cell) == IF cell # Null THEN <<SelectCall(cell)>> ELSE <<>>

handleClick(c) ==
    /\ mounted
    /\ OnCanvas(c)
    /\ Deliver([type |-> "click", x |-> c.x, y |-> c.y])
    /\ LET cell == getCellFromClientPoint(c.x, c.y, offset, scale)
       IN  /\ selectedCell' = ClickSelection(cell)
           /\ calls' = ClickCalls(cell)
    /\ UNCHANGED <<mounted, scale, offset, hoveredCell, canvasSize, canvas,
                   panState, captured, lastPan, prevPan, lastZoom, downView>>
    /\ RenderEffect

NextScale_wrongSign(prevScale, deltaY) ==
    clamp(RAdd(prevScale, RMul(I(deltaY), WheelFactor)), MIN_SCALE, MAX_SCALE)

\* The scale the wheel updater computes from the previous scale.
NextScale(prevScale, deltaY) ==
    clamp(RSub(prevScale, RMul(I(deltaY), WheelFactor)), MIN_SCALE, MAX_SCALE)

\* A zoom about the surface origin instead of the cursor.
ZoomOffset_aboutOrigin(prevOffset, mouse, ratio) ==
    Pt(RMul(prevOffset.x, ratio), RMul(prevOffset.y, ratio))

\* An offset updater whose y line was copied from the x line.
ZoomOffset_xForY(prevOffset, mouse, ratio) ==
    Pt(RSub(mouse.x, RMul(RSub(mouse.x, prevOffset.x), ratio)),
       RSub(mouse.y, RMul(RSub(mouse.x, prevOffset.x), ratio)))

\* The offset updater of a wheel event that changes the scale by ratio.
ZoomOffset(prevOffset, mouse, ratio) ==
    Pt(RSub(mouse.x, RMul(RSub(mouse.x, prevOffset.x), ratio)),
       RSub(mouse.y, RMul(RSub(mouse.y, prevOffset.y), ratio)))

handleWheel(c, deltaY) ==
    /\ mounted
    /\ OnCanvas(c)
    /\ Deliver([type |-> "wheel", x |-> c.x, y |-> c.y, deltaY |-> deltaY])
    /\ LET mouse == Pt(I(c.x - Rect.left), I(c.y - Rect.top))
           nextScale == NextScale(scale, deltaY)
       IN  IF nextScale = scale
           THEN UNCHANGED <<scale, offset, lastPan, prevPan, lastZoom>>
           ELSE /\ scale' = nextScale
                /\ offset' = ZoomOffset(offset, mouse, RDiv(nextScale, scale))
                /\ lastPan' = NoPan
                /\ prevPan' = NoPan
                /\ lastZoom' = [valid |-> TRUE, x |-> c.x, y |-> c.y,
                                deltaY |-> deltaY, scale |-> scale, offset |-> offset]
    /\ calls' = <<>>
    /\ UNCHANGED <<mounted, hoveredCell, selectedCell, canvasSize, canvas,
                   panState, captured, downView>>
    /\ RenderEffect

Next ==
    \/ \E env \in MountEnvironments : Mount(env)
    \/ \E env \in Environments : Resize(env)
    \/ \E id \in PointerIds, c \in ClientPoints : handlePointerDown(id, c)
    \/ \E id \in PointerIds, c \in ClientPoints : handlePointerMove(id, c)
    \/ \E id \in PointerIds : handlePointerUp(id)
    \/ \E id \in PointerIds : handlePointerLeave(id)
    \/ \E c \in ClientPoints : handleClick(c)
    \/ \E c \in ClientPoints, deltaY \in Deltas : handleWheel(c, deltaY)

Spec == Init /\ [][Next]_vars

----------------------------------------------------------------------------
(* Properties *)

\* The surface point (client point minus Rect) of the last event.
LastSurface == Pt(I(last.x - Rect.left), I(last.y - Rect.top))

\* The scale a wheel event asks for before clamping.
RequestedScale == RSub(pre.scale, <<last.deltaY, 1000>>)

\* C1: in every reachable state 1/4 <= scale <= 4, whatever wheel, pointer,
\* click and resize events came before: zooming in never pushes the scale
\* above 4 and zooming out never pushes it below 1/4.
C1_ScaleClamped ==
    /\ scale[2] > 0
    /\ 4 * scale[1] >= scale[2]
    /\ scale[1] <= 4 * scale[2]

\* A zoom-in wheel event that asked for a scale above 4 has been handled.
C1_Witness ==
    /\ last.type = "wheel"
    /\ last.deltaY < 0
    /\ RLt(<<4, 1>>, RequestedScale)
    /\ scale = <<4, 1>>

\* C2: a wheel event at surface point P that changes the scale from s to s'
\* leaves the grid-space point under P where it was: per axis,
\* (P - o') / s' = (P - o) / s for the offsets o before and o' after.
C2_ZoomAboutCursor ==
    (last.type = "wheel" /\ scale # pre.scale) =>
        /\ RDiv(RSub(LastSurface.x, offset.x), scale)
             = RDiv(RSub(LastSurface.x, pre.offset.x), pre.scale)
        /\ RDiv(RSub(LastSurface.y, offset.y), scale)
             = RDiv(RSub(LastSurface.y, pre.offset.y), pre.scale)

\* A wheel event changed the scale of a view that was already panned and
\* zoomed, at a point that is not the view's origin.
C2_Witness ==
    /\ last.type = "wheel"
    /\ scale # pre.scale
    /\ pre.scale # <<1, 1>>
    /\ pre.offset.x # LastSurface.x
    /\ pre.offset.y # LastSurface.y
    /\ pre.offset # Pt(<<0, 1>>, <<0, 1>>)
    /\ offset # pre.offset

\* C3: a pointer-down at client point S records the pointer id, S and the
\* offset in effect as the gesture origin O; no other event changes that
\* record except that pointer-up clears dragging; and a pointer-move of the
\* tracked pointer at client point C while dragging sets offset = O + (C - S)
\* exactly, whatever the scale.
C3_PanExact ==
    /\ last.type = "down" =>
          /\ panState.dragging
          /\ panState.pointerId = last.id
          /\ panState.start = Pt(last.x, last.y)
          /\ panState.origin = pre.offset
          /\ offset = pre.offset
    /\ last.type \in {"mount", "resize", "move", "up", "leave", "click", "wheel"} =>
          /\ panState.pointerId = pre.panState.pointerId
          /\ panState.start = pre.panState.start
          /\ panState.origin = pre.panState.origin
    /\ (last.type = "move" /\ pre.panState.dragging
            /\ pre.panState.pointerId = last.id) =>
          /\ offset.x = RAdd(pre.panState.origin.x, I(last.x - pre.panState.start.x))
          /\ offset.y = RAdd(pre.panState.origin.y, I(last.y - pre.panState.start.y))

\* A pan update moved a zoomed view whose gesture began at a panned offset.
C3_Witness ==
    /\ last.type = "move"
    /\ pre.panState.dragging
    /\ pre.panState.pointerId = last.id
    /\ scale # <<1, 1>>
    /\ pre.panState.origin # Pt(<<0, 1>>, <<0, 1>>)
    /\ pre.panState.start # Pt(last.x, last.y)
    /\ offset # pre.offset

\* The columns c of the grid whose surface interval
\* [off.x + c*cellSize*sc, off.x + (c+1)*cellSize*sc) holds px: at most one.
ColsUnder(px, off, sc) ==
    LET g == RSub(px, off.x)
    IN  { c \in 0..(props.cols - 1) :
            /\ c * props.cellSize * sc[1] * g[2] <= g[1] * sc[2]
            /\ g[1] * sc[2] < (c + 1) * props.cellSize * sc[1] * g[2] }

\* The rows of the grid whose surface interval holds py: at most one.
RowsUnder(py, off, sc) ==
    LET g == RSub(py, off.y)
    IN  { r \in 0..(props.rows - 1) :
            /\ r * props.cellSize * sc[1] * g[2] <= g[1] * sc[2]
            /\ g[1] * sc[2] < (r + 1) * props.cellSize * sc[1] * g[2] }

\* The last event's point lies over a cell of the grid in the view the
\* event found (the view its handler's hit test reads).
LastOverCell ==
    /\ ColsUnder(LastSurface.x, pre.offset, pre.scale) # {}
    /\ RowsUnder(LastSurface.y, pre.offset, pre.scale) # {}

IdentityView(view) ==
    view.scale = <<1, 1>> /\ view.offset = Pt(<<0, 1>>, <<0, 1>>)

\* C4: a click at surface point (x, y) resolves the cell (row, col) with
\* col = floor(((x - offset.x) / scale) / cellSize) and row likewise, that
\* is the cell whose scaled, translated square holds the point; when it is
\* in range the click selects it and calls onSelect(row, col) exactly once.
\* In the identity view that is (y div cellSize, x div cellSize); a click at
\* (64, 96) with cellSize 32 selects row 3, col 2.
C4_ClickSelects ==
    last.type = "click" =>
        /\ LastOverCell =>
              \E r \in RowsUnder(LastSurface.y, pre.offset, pre.scale),
                 c \in ColsUnder(LastSurface.x, pre.offset, pre.scale) :
                    /\ selectedCell = [row |-> r, col |-> c]
                    /\ calls = <<[fn |-> "onSelect", row |-> r, col |-> c]>>
        /\ LET x == last.x - Rect.left
               y == last.y - Rect.top
               row == y \div props.cellSize
               col == x \div props.cellSize
           IN  (IdentityView(pre) /\ 0 <= row /\ row < props.rows
                    /\ 0 <= col /\ col < props.cols) =>
                  /\ selectedCell = [row |-> row, col |-> col]
                  /\ calls = <<[fn |-> "onSelect", row |-> row, col |-> col]>>
                  /\ (x = 64 /\ y = 96 /\ props.cellSize = 32) =>
                         selectedCell = [row |-> 3, col |-> 2]

\* A click selected a cell in a view that is both panned and zoomed.
C4_Witness ==
    /\ last.type = "click"
    /\ pre.scale # <<1, 1>>
    /\ pre.offset.x # <<0, 1>>
    /\ LastOverCell
    /\ selectedCell # Null
    /\ Len(calls) = 1

\* C5: a click that resolves to no cell calls nothing and leaves
\* selectedCell as it was; selectedCell, once set, is never null again.
C5_ClickOutside ==
    /\ (last.type = "click" /\ ~LastOverCell) =>
          /\ calls = <<>>
          /\ selectedCell = pre.selectedCell
    /\ (last.type # "none" /\ pre.selectedCell # Null) => selectedCell # Null

\* A click outside the grid was handled while a cell was selected.
C5_Witness ==
    /\ last.type = "click"
    /\ ~LastOverCell
    /\ pre.selectedCell # Null
    /\ selectedCell = pre.selectedCell
    /\ calls = <<>>

\* C6: a pointer-move whose point lies over no cell (in the view the event
\* finds, which is the view its hit test reads) calls onHover(-1, -1) and
\* sets hoveredCell to null, and so does every pointer-leave; a move calls
\* onHover once, with (-1, -1) or with a pair that is in range in both parts.
C6_HoverSentinel ==
    /\ (last.type = "move" /\ ~LastOverCell) =>
          /\ calls = <<[fn |-> "onHover", row |-> -1, col |-> -1]>>
          /\ hoveredCell = Null
    /\ last.type = "leave" =>
          /\ calls = <<[fn |-> "onHover", row |-> -1, col |-> -1]>>
          /\ hoveredCell = Null
    /\ last.type = "move" =>
          /\ Len(calls) = 1
          /\ calls[1].fn = "onHover"
          /\ \/ calls[1].row = -1 /\ calls[1].col = -1
             \/ /\ calls[1].row \in 0..(props.rows - 1)
                /\ calls[1].col \in 0..(props.cols - 1)

\* A move was handled at a point whose row is in range and whose column is
\* beyond the last column.
C6_Witness ==
    /\ last.type = "move"
    /\ RowsUnder(LastSurface.y, pre.offset, pre.scale) # {}
    /\ ColsUnder(LastSurface.x, pre.offset, pre.scale) = {}
    /\ RLe(pre.offset.x, LastSurface.x)
    /\ hoveredCell = Null

\* C7: every pointer-move, also one that pans the view, calls onHover
\* exactly once with the cell under the pointer in the view that results
\* from the move (its pan update applied), or with (-1, -1) if there is none.
C7_HoverInCurrentView ==
    last.type = "move" =>
        /\ Len(calls) = 1
        /\ IF /\ RowsUnder(LastSurface.y, offset, scale) # {}
              /\ ColsUnder(LastSurface.x, offset, scale) # {}
           THEN \E r \in RowsUnder(LastSurface.y, offset, scale),
                   c \in ColsUnder(LastSurface.x, offset, scale) :
                      calls[1] = [fn |-> "onHover", row |-> r, col |-> c]
           ELSE calls[1] = [fn |-> "onHover", row |-> -1, col |-> -1]

\* The device pixel ratio the sizing effect of the last resize used.
LastDpr == IF last.env.dpr = <<0, 1>> THEN <<1, 1>> ELSE last.env.dpr

\* What a resize does apart from the backing buffer: the surface size is the
\* reported size raised to 200, the displayed size is the surface size, and
\* the view, the cells and the pan gesture are as they were.
ResizeOutcome ==
    /\ canvasSize.width = (IF last.env.width >= 200 THEN last.env.width ELSE 200)
    /\ canvasSize.height = (IF last.env.height >= 200 THEN last.env.height ELSE 200)
    /\ canvas.styleWidth = canvasSize.width
    /\ canvas.styleHeight = canvasSize.height
    /\ offset = pre.offset
    /\ scale = pre.scale
    /\ hoveredCell = pre.hoveredCell
    /\ selectedCell = pre.selectedCell
    /\ panState = pre.panState

\* C8 as stated: after a resize the backing buffer is exactly
\* (surfaceSize.width * dpr, surfaceSize.height * dpr).
C8_BufferIsProduct ==
    last.type = "resize" =>
        /\ ResizeOutcome
        /\ I(canvas.width) = RMul(I(canvasSize.width), LastDpr)
        /\ I(canvas.height) = RMul(I(canvasSize.height), LastDpr)

\* C8, amended: after a resize the backing buffer is the whole part of
\* (surfaceSize.width * dpr, surfaceSize.height * dpr); the rest as stated.
\* A resize from 1200x800 to 600x400 gives surface 600x400 and buffer
\* 600*dpr x 400*dpr.
C8_Resize ==
    last.type = "resize" =>
        /\ ResizeOutcome
        /\ canvas.width * LastDpr[2] <= canvasSize.width * LastDpr[1]
        /\ canvasSize.width * LastDpr[1] < (canvas.width + 1) * LastDpr[2]
        /\ canvas.height * LastDpr[2] <= canvasSize.height * LastDpr[1]
        /\ canvasSize.height * LastDpr[1] < (canvas.height + 1) * LastDpr[2]
        /\ (pre.canvasSize = [width |-> 1200, height |-> 800]
                /\ last.env.width = 600 /\ last.env.height = 400) =>
              /\ canvasSize = [width |-> 600, height |-> 400]
              /\ I(canvas.width) = RMul(I(600), LastDpr)
              /\ I(canvas.height) = RMul(I(400), LastDpr)

\* A resize to a container narrower than 200, at a fractional device pixel
\* ratio, was handled during a drag in a zoomed view.
C8_Witness ==
    /\ last.type = "resize"
    /\ last.env.width < 200
    /\ LastDpr[2] # 1
    /\ canvasSize # pre.canvasSize
    /\ canvas # pre.canvas
    /\ pre.panState.dragging
    /\ pre.scale # <<1, 1>>

\* C9: a wheel event with deltaY = d followed by one with deltaY = -d at the
\* same point, neither clamped, returns scale and offset to what they were;
\* a drag by (dx, dy) followed by a drag by (-dx, -dy) returns offset to what
\* it was.  (Equal views give equal hit tests by definition: the hit test
\* reads nothing but the view.)
C9_RoundTrip ==
    /\ (/\ last.type = "wheel"
        /\ pre.lastZoom.valid
        /\ last.x = pre.lastZoom.x
        /\ last.y = pre.lastZoom.y
        /\ last.deltaY = -pre.lastZoom.deltaY
        /\ pre.scale = RSub(pre.lastZoom.scale, <<pre.lastZoom.deltaY, 1000>>)
        /\ RLe(<<1, 4>>, RequestedScale)
        /\ RLe(RequestedScale, <<4, 1>>)) =>
          /\ scale = pre.lastZoom.scale
          /\ offset = pre.lastZoom.offset
    /\ (/\ last.type = "move"
        /\ pre.panState.dragging
        /\ pre.panState.pointerId = last.id
        /\ prevPan.valid
        /\ last.x - pre.panState.start.x = -prevPan.dx
        /\ last.y - pre.panState.start.y = -prevPan.dy) =>
          offset = prevPan.origin

\* A zoom and its inverse at the same point returned a panned view to itself.
C9_Witness ==
    /\ last.type = "wheel"
    /\ last.deltaY # 0
    /\ pre.lastZoom.valid
    /\ last.x = pre.lastZoom.x
    /\ last.y = pre.lastZoom.y
    /\ last.deltaY = -pre.lastZoom.deltaY
    /\ pre.scale = RSub(pre.lastZoom.scale, <<pre.lastZoom.deltaY, 1000>>)
    /\ RLe(<<1, 4>>, RequestedScale)
    /\ RLe(RequestedScale, <<4, 1>>)
    /\ scale = pre.lastZoom.scale
    /\ offset = pre.lastZoom.offset
    /\ offset # Pt(<<0, 1>>, <<0, 1>>)
    /\ offset # pre.offset

\* A drag and the opposite drag returned the offset to the first origin.
C9_WitnessDrag ==
    /\ last.type = "move"
    /\ pre.panState.dragging
    /\ pre.panState.pointerId = last.id
    /\ prevPan.valid
    /\ prevPan.dx # 0
    /\ last.x - pre.panState.start.x = -prevPan.dx
    /\ last.y - pre.panState.start.y = -prevPan.dy
    /\ offset = prevPan.origin
    /\ offset # pre.offset

\* C10: after a pointer-up of the tracked pointer id, and after any
\* pointer-leave, dragging is false and the tracked pointer's capture is
\* released; a pointer-move that finds dragging false does not change offset.
C10_PanEnds ==
    /\ (\/ last.type = "leave"
        \/ last.type = "up" /\ last.id = pre.panState.pointerId) =>
          /\ ~panState.dragging
          /\ panState.pointerId \notin captured
    /\ (last.type = "move" /\ ~pre.panState.dragging) => offset = pre.offset

\* A pointer-down found a drag of another pointer in progress.
Displaced ==
    /\ pre.panState.dragging
    /\ pre.panState.pointerId # last.id

\* C11: last pointer wins.  A pointer-down of pointer B during a drag of
\* pointer A replaces the gesture by (pointerId B, start B's point, origin the
\* current offset, dragging), and offset is left alone.  While a drag is
\* tracked, a pointer-move of any other pointer leaves offset unchanged and a
\* pointer-move of the tracked one sets offset = origin + (C - start); a
\* pointer-up of another pointer leaves the gesture as it is, dragging
\* included, and a pointer-up of the tracked pointer ends the drag.
C11_LastPointerWins ==
    /\ (last.type = "down" /\ Displaced) =>
          /\ panState = [dragging |-> TRUE, pointerId |-> last.id,
                         start |-> Pt(last.x, last.y), origin |-> pre.offset]
          /\ offset = pre.offset
    /\ (last.type = "move" /\ Displaced) => offset = pre.offset
    /\ (last.type = "move" /\ pre.panState.dragging
            /\ pre.panState.pointerId = last.id) =>
          /\ offset.x = RAdd(pre.panState.origin.x, I(last.x - pre.panState.start.x))
          /\ offset.y = RAdd(pre.panState.origin.y, I(last.y - pre.panState.start.y))
    /\ (last.type = "up" /\ Displaced) =>
          /\ panState = pre.panState
          /\ panState.dragging
    /\ (last.type = "up" /\ pre.panState.pointerId = last.id) =>
          /\ ~panState.dragging
          /\ panState.pointerId = last.id

\* Pointer A went down, pointer B went down after it and took the gesture
\* over, and A, still captured, has moved away from where B's gesture began:
\* the offset stayed.
C11_Witness ==
    /\ last.type = "move"
    /\ Displaced
    /\ last.id \in captured
    /\ Pt(last.x, last.y) # pre.panState.start
    /\ offset = pre.offset

\* The wheel event asks for a scale that clamps to the scale it finds: the
\* scale is at the lower limit and deltaY > 0, at the upper limit and
\* deltaY < 0, or deltaY = 0.
ClampedToCurrent ==
    \/ pre.scale = <<1, 4>> /\ last.deltaY > 0
    \/ pre.scale = <<4, 1>> /\ last.deltaY < 0
    \/ last.deltaY = 0

\* C12: a wheel event whose clamped next scale equals the current scale
\* changes neither scale nor offset, wherever the cursor is.
C12_WheelNoOp ==
    (last.type = "wheel" /\ ClampedToCurrent) =>
        /\ scale = pre.scale
        /\ offset = pre.offset

\* A zoom-in wheel event at the upper limit, away from the view's origin.
C12_Witness ==
    /\ last.type = "wheel"
    /\ pre.scale = <<4, 1>>
    /\ last.deltaY < 0
    /\ LastSurface # pre.offset
    /\ scale = pre.scale
    /\ offset = pre.offset

\* C13: frame.  Only wheel events change scale; only wheel events and
\* pointer-moves of the tracked pointer while dragging change offset; and
\* only clicks change selectedCell.
C13_Frame ==
    /\ last.type \in {"mount", "resize", "down", "move", "up", "leave", "click"} =>
          scale = pre.scale
    /\ (\/ last.type \in {"mount", "resize", "down", "up", "leave", "click"}
        \/ /\ last.type = "move"
           /\ ~(pre.panState.dragging /\ pre.panState.pointerId = last.id)) =>
          offset = pre.offset
    /\ last.type \in {"mount", "resize", "down", "move", "up", "leave", "wheel"} =>
          selectedCell = pre.selectedCell

\* The pointer whose drag has ended moves over a panned view: the gesture
\* still names it, dragging is false, and the offset stays.
C13_Witness ==
    /\ last.type = "move"
    /\ ~pre.panState.dragging
    /\ pre.panState.pointerId = last.id
    /\ Pt(last.x, last.y) # pre.panState.start
    /\ pre.offset # Pt(<<0, 1>>, <<0, 1>>)
    /\ offset = pre.offset
    /\ scale = pre.scale

\* A cell reference that names a cell of the grid.
InRange(cell) ==
    /\ cell.row \in 0..(props.rows - 1)
    /\ cell.col \in 0..(props.cols - 1)

\* C14: hoveredCell and selectedCell are each null or an in-range
\* (row, col) of integers; every onSelect call passes an in-range pair and
\* every onHover call an in-range pair or exactly (-1, -1).
C14_CellsInRange ==
    /\ hoveredCell = Null \/ InRange(hoveredCell)
    /\ selectedCell = Null \/ InRange(selectedCell)
    /\ \A i \in 1..Len(calls) :
          \/ calls[i].fn = "onSelect" /\ InRange(calls[i])
          \/ /\ calls[i].fn = "onHover"
             /\ \/ InRange(calls[i])
                \/ calls[i].row = -1 /\ calls[i].col = -1

\* With a cell selected, a captured pointer moved to a point left of the
\* grid, where the column index falls below 0: the hover is cleared and
\* onHover gets (-1, -1).
C14_Witness ==
    /\ last.type = "move"
    /\ RLt(LastSurface.x, pre.offset.x)
    /\ selectedCell # Null
    /\ hoveredCell = Null
    /\ calls = <<[fn |-> "onHover", row |-> -1, col |-> -1]>>

\* C15: pointer-down captures the pressed pointer; while dragging is true
\* the tracked pointer holds the capture; a pointer-up releases the capture
\* of its own pointer and of no other; and no other event changes which
\* pointers are captured.
C15_Capture ==
    /\ last.type = "down" => captured = pre.captured \cup {last.id}
    /\ panState.dragging => panState.pointerId \in captured
    /\ last.type = "up" => captured = pre.captured \ {last.id}
    /\ last.type \in {"mount", "resize", "move", "leave", "click", "wheel"} =>
          captured = pre.captured

\* During a drag an event of the tracked pointer is delivered from a point
\* outside the canvas, and a second pointer is captured as well.
C15_Witness ==
    /\ last.type = "move"
    /\ last.x < Rect.left
    /\ panState.dragging
    /\ panState.pointerId = last.id
    /\ last.id \in captured
    /\ captured = PointerIds
    /\ offset # pre.offset

\* C16: the canvas shows the outcome of a repaint of the current offset,
\* scale, hoveredCell, selectedCell and surface size (a change of any of
\* them repaints: the hover fill starts at the hovered cell's corner and the
\* selection outline lies in the selected cell), and every repaint strokes one horizontal line for each
\* r in 0..rows, from x = 0 to x = cols * cellSize at y = r * cellSize, and
\* one vertical line for each c in 0..cols, from y = 0 to
\* y = rows * cellSize at x = c * cellSize, whatever the offset, the scale
\* and the surface size are.
C16_Repaint ==
    mounted =>
        /\ painted.hLines = 0..props.rows
        /\ painted.vLines = 0..props.cols
        /\ painted.cellSize = props.cellSize
        /\ painted.gridWidth = props.cols * props.cellSize
        /\ painted.gridHeight = props.rows * props.cellSize
        /\ painted.offset = offset
        /\ painted.scale = scale
        /\ painted.size = canvasSize
        /\ (painted.hover = Null) <=> (hoveredCell = Null)
        /\ hoveredCell # Null =>
              /\ painted.hover.x = I(hoveredCell.col * props.cellSize)
              /\ painted.hover.y = I(hoveredCell.row * props.cellSize)
        /\ (painted.selection = Null) <=> (selectedCell = Null)
        /\ selectedCell # Null =>
              /\ RLe(I(selectedCell.col * props.cellSize), painted.selection.x)
              /\ RLe(RAdd(painted.selection.x, painted.selection.w),
                     I((selectedCell.col + 1) * props.cellSize))
              /\ RLe(I(selectedCell.row * props.cellSize), painted.selection.y)
              /\ RLe(RAdd(painted.selection.y, painted.selection.h),
                     I((selectedCell.row + 1) * props.cellSize))

\* A pointer-move changed the hovered cell and nothing else, in a zoomed-in
\* view on a surface smaller than the grid whose origin lies off the
\* surface: the canvas shows the new hover and all gridlines.
C16_Witness ==
    /\ last.type = "move"
    /\ hoveredCell # Null
    /\ hoveredCell # pre.hoveredCell
    /\ offset = pre.offset
    /\ RLt(<<1, 1>>, scale)
    /\ RLt(offset.x, <<0, 1>>)
    /\ RLt(I(canvasSize.width), RMul(I(props.cols * props.cellSize), scale))
    /\ painted.hover.x = I(hoveredCell.col * props.cellSize)
    /\ painted.hLines = 0..props.rows

\* The surface point of the tracked gesture's pointer-down.
StartSurface ==
    Pt(I(pre.panState.start.x - Rect.left), I(pre.panState.start.y - Rect.top))

\* C17: at every pointer-move of the tracked pointer during a drag, the
\* grid-space point under the pointer, (P - offset) / scale, equals the
\* grid-space point that was under the pointer at its pointer-down in the
\* view of that moment, whatever wheel events came in between.
C17_AnchorKept ==
    (last.type = "move" /\ pre.panState.dragging
        /\ pre.panState.pointerId = last.id) =>
        /\ RDiv(RSub(LastSurface.x, offset.x), scale)
             = RDiv(RSub(StartSurface.x, downView.offset.x), downView.scale)
        /\ RDiv(RSub(LastSurface.y, offset.y), scale)
             = RDiv(RSub(StartSurface.y, downView.offset.y), downView.scale)

\* C18: from mount onward the surface is at least 200 wide and 200 high,
\* whatever the container's size, and the size the mount sets is the size
\* the resize observer's callback sets for the same container size.
C18_SurfaceAtLeast200 ==
    mounted =>
        /\ canvasSize.width >= 200
        /\ canvasSize.height >= 200
        /\ last.type = "mount" =>
              /\ canvasSize.width
                   = IF last.env.width > 200 THEN last.env.width ELSE 200
              /\ canvasSize.height
                   = IF last.env.height > 200 THEN last.env.height ELSE 200

\* The surface rectangle [x0, x1) x [y0, y1) of a cell in the current view:
\* x0 = offset.x + col * cellSize * scale, x1 = offset.x + (col + 1) *
\* cellSize * scale, and likewise for y with the row.
CellRect(cell) ==
    [x0 |-> RAdd(offset.x, RMul(I(cell.col * props.cellSize), scale)),
     x1 |-> RAdd(offset.x, RMul(I((cell.col + 1) * props.cellSize), scale)),
     y0 |-> RAdd(offset.y, RMul(I(cell.row * props.cellSize), scale)),
     y1 |-> RAdd(offset.y, RMul(I((cell.row + 1) * props.cellSize), scale))]

\* A painted rectangle in surface space: the canvas transform of the repaint
\* maps the grid point g to painted.offset + g * painted.scale.
ToSurface(rect) ==
    [x0 |-> RAdd(painted.offset.x, RMul(rect.x, painted.scale)),
     x1 |-> RAdd(painted.offset.x, RMul(RAdd(rect.x, rect.w), painted.scale)),
     y0 |-> RAdd(painted.offset.y, RMul(rect.y, painted.scale)),
     y1 |-> RAdd(painted.offset.y, RMul(RAdd(rect.y, rect.h), painted.scale))]

Inset(rect, d) ==
    [x0 |-> RAdd(rect.x0, d), x1 |-> RSub(rect.x1, d),
     y0 |-> RAdd(rect.y0, d), y1 |-> RSub(rect.y1, d)]

Ceil(q) == 0 - RFloor(RSub(I(0), q))

\* Surface points with integer coordinates next to the corners of a
\* rectangle, on both sides of each of its four edges.
Probes(rect) ==
    LET l == Ceil(rect.x0)
        t == Ceil(rect.y0)
        r == Ceil(rect.x1)
        b == Ceil(rect.y1)
    IN  { <<l, t>>, <<l - 1, t>>, <<l, t - 1>>,
          <<r - 1, b - 1>>, <<r, b - 1>>, <<r - 1, b>> }

Inside(p, rect) ==
    /\ RLe(rect.x0, I(p[1])) /\ RLt(I(p[1]), rect.x1)
    /\ RLe(rect.y0, I(p[2])) /\ RLt(I(p[2]), rect.y1)

\* The hit test in the current view resolves a probed surface point to the
\* cell exactly when the point lies in the rectangle.
HitRegionIs(cell, rect) ==
    \A p \in Probes(rect) :
        (getCellFromClientPoint(p[1] + Rect.left, p[2] + Rect.top, offset, scale)
            = cell) <=> Inside(p, rect)

\* The rectangle filled for the hovered cell is the cell's surface
\* rectangle, which is the set of points the hit test resolves to the cell.
HoverAgrees ==
    hoveredCell # Null =>
        /\ ToSurface(painted.hover) = CellRect(hoveredCell)
        /\ HitRegionIs(hoveredCell, ToSurface(painted.hover))

\* C19 as stated: the rectangle the renderer paints for a hovered cell and
\* the one it paints for a selected cell are both the cell's surface
\* rectangle, the set of surface points the hit test resolves to the cell.
C19_PaintedIsHitRegion ==
    mounted =>
        /\ HoverAgrees
        /\ selectedCell # Null =>
              ToSurface(painted.selection) = CellRect(selectedCell)

\* C19: renderer and hit tester agree on the cells.  The rectangle filled
\* for a hovered cell (r, c) is [offset.x + c*cellSize*scale, offset.x +
\* (c+1)*cellSize*scale) x [offset.y + r*cellSize*scale, offset.y +
\* (r+1)*cellSize*scale), exactly the surface points the hit test resolves
\* to (r, c); the rectangle stroked for a selected cell is that rectangle
\* of its cell inset by half a surface pixel on every side.
C19_RendererAgrees ==
    mounted =>
        /\ HoverAgrees
        /\ selectedCell # Null =>
              ToSurface(painted.selection)
                  = Inset(CellRect(selectedCell), <<1, 2>>)

\* A hovered cell and another, selected cell are painted in a view that is
\* both zoomed and panned.
C19_Witness ==
    /\ mounted
    /\ hoveredCell # Null
    /\ selectedCell # Null
    /\ hoveredCell # selectedCell
    /\ hoveredCell.row # hoveredCell.col
    /\ scale # <<1, 1>>
    /\ offset # Pt(<<0, 1>>, <<0, 1>>)
    /\ painted.hover # Null
    /\ painted.selection # Null

====
